---------------------------- MODULE Spec2Model ----------------------------
(***************************************************************************)
(* bytekey: an order-preserving binary codec.                              *)
(*                                                                         *)
(* The model follows src/src/encoder.rs (the encoder), src/src/de.rs (the  *)
(* deserializer) and the harnesses of src/tests.  A machine word is a      *)
(* sequence of bits, most significant bit first, so that every operation   *)
(* keeps the width it has in the code (u8, u16, u32, u64 and the signed    *)
(* types in two's complement).  A byte stream is a sequence of numbers in  *)
(* 0..255.                                                                 *)
(***************************************************************************)
EXTENDS Integers, Sequences, FiniteSets, TLC

VARIABLES test, enc, dec

vars == <<test, enc, dec>>

(* How far the sampled inputs reach around each boundary value.            *)
Spread == 1

-----------------------------------------------------------------------------
(* Machine words.                                                          *)

(* A word is kept as a tuple of bits.                                      *)
Word(f) == f \o <<>>

Zero(w) == Word([i \in 1..w |-> 0])

Ones(w) == Word([i \in 1..w |-> 1])

(* The w-bit word of a number n < 2^31.                                    *)
FromNat(n, w) ==
    Word([i \in 1..w |-> IF w - i >= 31 THEN 0 ELSE (n \div (2 ^ (w - i))) % 2])

(* The number an 8-bit word stands for.                                    *)
ToNat(x) ==
    128 * x[1] + 64 * x[2] + 32 * x[3] + 16 * x[4] + 8 * x[5] + 4 * x[6] + 2 * x[7] + x[8]

BNot(x) == Word([i \in 1..Len(x) |-> 1 - x[i]])

BOr(x, y) == Word([i \in 1..Len(x) |-> IF x[i] = 1 \/ y[i] = 1 THEN 1 ELSE 0])

BAnd(x, y) == Word([i \in 1..Len(x) |-> IF x[i] = 1 /\ y[i] = 1 THEN 1 ELSE 0])

BXor(x, y) == Word([i \in 1..Len(x) |-> IF x[i] = y[i] THEN 0 ELSE 1])

(* x << k, x >> k on an unsigned type, x >> k on a signed type; k < width. *)
Shl(x, k) == Word([i \in 1..Len(x) |-> IF i + k <= Len(x) THEN x[i + k] ELSE 0])

Shr(x, k) == Word([i \in 1..Len(x) |-> IF i - k >= 1 THEN x[i - k] ELSE 0])

Sar(x, k) == Word([i \in 1..Len(x) |-> IF i - k >= 1 THEN x[i - k] ELSE x[1]])

(* x as uW for a narrower W (truncation) and for a wider W (zero extension)*)
Trunc(x, w) == SubSeq(x, Len(x) - w + 1, Len(x))

ZExt(x, w) == Zero(w - Len(x)) \o x

(* The big-endian bytes of a word whose width is a multiple of 8, and the  *)
(* word of a sequence of bytes.                                            *)
Bytes(x) ==
    Word([i \in 1..(Len(x) \div 8) |-> ToNat(SubSeq(x, 8 * (i - 1) + 1, 8 * i))])

FromBytes(bs) ==
    Word([i \in 1..(8 * Len(bs)) |->
            (bs[((i - 1) \div 8) + 1] \div (2 ^ (7 - ((i - 1) % 8)))) % 2])

(* Addition byte by byte from the least significant one: the carry out,    *)
(* then the bytes of the sum.                                              *)
RECURSIVE AddRec(_, _, _, _)
AddRec(bx, by, i, c) ==
    IF i = 0 THEN <<c>>
    ELSE AddRec(bx, by, i - 1, (bx[i] + by[i] + c) \div 256)
             \o <<(bx[i] + by[i] + c) % 256>>

(* Wrapping addition, and whether the unsigned addition carried out.       *)
Add(x, y) == FromBytes(Tail(AddRec(Bytes(x), Bytes(y), Len(x) \div 8, 0)))

AddCarries(x, y) == Head(AddRec(Bytes(x), Bytes(y), Len(x) \div 8, 0)) = 1

(* Wrapping negation and subtraction.                                      *)
Neg(x) == Add(BNot(x), FromNat(1, Len(x)))

Sub(x, y) == Add(x, Neg(y))

(* The word of an integer d with |d| < 2^31, in two's complement.          *)
FromInt(d, w) == IF d >= 0 THEN FromNat(d, w) ELSE BNot(FromNat(-d - 1, w))

(* Unsigned and signed comparison of two words of one width.               *)
ULt(x, y) ==
    \E i \in 1..Len(x) : x[i] < y[i] /\ \A j \in 1..(i - 1) : x[j] = y[j]

SLt(x, y) == ULt(BXor(x, FromNat(1, 1) \o Zero(Len(x) - 1)),
                 BXor(y, FromNat(1, 1) \o Zero(Len(y) - 1)))

(* 1 << k in a w-bit type.                                                 *)
Pow2(k, w) == Shl(FromNat(1, w), k)

(* The smallest value of the signed w-bit type (i8::MIN ... i64::MIN).     *)
MinSigned(w) == Pow2(w - 1, w)

-----------------------------------------------------------------------------
(* Byte streams.                                                           *)

(* Vec<u8>'s order: lexicographic on unsigned bytes, a proper prefix first.*)
LexLt(s, t) ==
    \/ Len(s) < Len(t) /\ SubSeq(t, 1, Len(s)) = s
    \/ \E i \in 1..Len(s) :
          /\ i <= Len(t)
          /\ s[i] < t[i]
          /\ \A j \in 1..(i - 1) : s[j] = t[j]

(* What a read or write that failed leaves in a stream, in place of a byte. *)
IoFailure == -1

(* Write::write_all on the encoder's writer, which holds the bytes that    *)
(* were accepted.  A writer that begins with -2 - cap fails every write    *)
(* that would bring it above cap bytes: it accepts nothing of it and the   *)
(* failure is recorded after the bytes accepted so far.  Any other writer  *)
(* accepts every write.                                                    *)
write_all(writer, buf) ==
    IF writer = <<>> \/ writer[1] >= 0 THEN writer \o buf
    ELSE LET accepted == Cardinality({i \in 2..Len(writer) : writer[i] >= 0})
         IN  IF accepted + Len(buf) <= (-2) - writer[1] THEN writer \o buf
             ELSE Append(writer, IoFailure)

(* try!(..) around the write that gave w, and what follows it to give    *)
(* next: the call returns when the write failed.                           *)
Try(w, next) == IF w # <<>> /\ w[Len(w)] = IoFailure THEN w ELSE next

(* byteorder's WriteBytesExt on the encoder's writer.                      *)
write_u8(writer, x) == write_all(writer, Bytes(x))

(* A writer that was given LittleEndian: the bytes in reverse.              *)
write_u16_le(writer, x) == writer \o <<Bytes(x)[2], Bytes(x)[1]>>

write_u16(writer, x) == write_all(writer, Bytes(x))

write_u32(writer, x) == write_all(writer, Bytes(x))

write_u64(writer, x) == write_all(writer, Bytes(x))

write_i8(writer, x) == write_all(writer, Bytes(x))

write_i16(writer, x) == write_all(writer, Bytes(x))

write_i32(writer, x) == write_all(writer, Bytes(x))

write_i64(writer, x) == write_all(writer, Bytes(x))


-----------------------------------------------------------------------------
(* The state.  test is the harness that runs: "order" encodes two values   *)
(* with two encoders and compares the bytes (tests/ser.rs), "round_trip"   *)
(* encodes one value and hands the bytes to a deserializer (tests/de.rs),  *)
(* "write_failure" encodes one value to a writer that fails.               *)
(* enc[e] is encoder e: the type and value it was given and the bytes in   *)
(* its writer.  dec is the deserializer: its reader, the position reached, *)
(* and the type, start position and result of its last call.               *)

Encoders == {1, 2}

NoValue == [ty |-> "none", val |-> <<>>, writer |-> <<>>]

NoResult == [st |-> "none", val |-> <<>>, pos |-> 0, ovf |-> FALSE]

NoDeserializer == [reader |-> <<>>, pos |-> 0, ty |-> "none", at |-> 0, res |-> NoResult]

Init ==
    /\ test \in {"order", "round_trip", "write_failure"}
    /\ enc = [e \in Encoders |-> NoValue]
    /\ dec = NoDeserializer

(* encode(&v): a fresh encoder over an empty writer encodes one value.     *)
Encoded(e, ty, v, bytes) ==
    /\ enc[e].ty = "none"
    /\ e = 2 => test = "order"
    /\ enc' = [enc EXCEPT ![e] = [ty |-> ty, val |-> v, writer |-> bytes]]
    /\ UNCHANGED <<test, dec>>

(* deserialize(&bytes): the deserializer reads what encoder 1 wrote; a      *)
(* call that returned an error ends the run.                               *)
CanDeserialize ==
    /\ test = "round_trip"
    /\ enc[1].ty # "none"
    /\ dec.res.st \in {"none", "ok"}

Reader == enc[1].writer

Deserialized(ty, res) ==
    /\ dec' = [reader |-> Reader, pos |-> res.pos, ty |-> ty, at |-> dec.pos, res |-> res]
    /\ UNCHANGED <<test, enc>>

Ok(val, pos) == [st |-> "ok", val |-> val, pos |-> pos, ovf |-> FALSE]

(* byteorder's read_* on a reader with too few bytes left: io::Error of    *)
(* kind UnexpectedEof, which From<io::Error> wraps into Error::Io.         *)
UnexpectedEof(pos) == [st |-> "Io(UnexpectedEof)", val |-> <<>>, pos |-> pos, ovf |-> FALSE]

(* A read that failed for another reason, the reader left behind it: the   *)
(* io::Error arrives wrapped into Error::Io as well.                       *)
IoError(pos) == [st |-> "Io(Other)", val |-> <<>>, pos |-> pos, ovf |-> FALSE]

(* Inputs: the values d below and above a boundary value c.                *)
Near(c) == {Add(c, FromInt(d, Len(c))) : d \in (-Spread)..(Spread - 1)}

Pattern64 == FromBytes(<<1, 35, 69, 103, 137, 171, 205, 239>>)

-----------------------------------------------------------------------------
(* Variable-length u64.                                                    *)

(* emit_var_u64 with its first test written val <= 1 << 4.                 *)
emit_var_u64_le4(writer, val) ==
    IF ~ULt(Pow2(4, 64), val) THEN
        write_u8(writer, Trunc(val, 8))
    ELSE IF ULt(val, Pow2(12, 64)) THEN
        write_u16(writer, BOr(Trunc(val, 16), Pow2(12, 16)))
    ELSE IF ULt(val, Pow2(20, 64)) THEN
        write_u16(write_u8(writer, BOr(Trunc(Shr(val, 16), 8), Shl(FromNat(2, 8), 4))),
                  Trunc(val, 16))
    ELSE IF ULt(val, Pow2(28, 64)) THEN
        write_u32(writer, BOr(Trunc(val, 32), Shl(FromNat(3, 32), 28)))
    ELSE IF ULt(val, Pow2(36, 64)) THEN
        write_u32(write_u8(writer, BOr(Trunc(Shr(val, 32), 8), Shl(FromNat(4, 8), 4))),
                  Trunc(val, 32))
    ELSE IF ULt(val, Pow2(44, 64)) THEN
        write_u32(write_u16(writer, BOr(Trunc(Shr(val, 32), 16), Shl(FromNat(5, 16), 12))),
                  Trunc(val, 32))
    ELSE IF ULt(val, Pow2(52, 64)) THEN
        write_u32(write_u16(write_u8(writer,
                                     BOr(Trunc(Shr(val, 48), 8), Shl(FromNat(6, 8), 4))),
                            Trunc(Shr(val, 32), 16)),
                  Trunc(val, 32))
    ELSE IF ULt(val, Pow2(60, 64)) THEN
        write_u64(writer, BOr(val, Shl(FromNat(7, 64), 60)))
    ELSE
        write_u64(write_u8(writer, Shl(FromNat(8, 8), 4)), val)

emit_var_u64(writer, val) ==
    IF ULt(val, Pow2(4, 64)) THEN
        write_u8(writer, Trunc(val, 8))
    ELSE IF ULt(val, Pow2(12, 64)) THEN
        write_u16(writer, BOr(Trunc(val, 16), Pow2(12, 16)))
    ELSE IF ULt(val, Pow2(20, 64)) THEN
        LET w == write_u8(writer, BOr(Trunc(Shr(val, 16), 8), Shl(FromNat(2, 8), 4)))
        IN  Try(w, write_u16(w, Trunc(val, 16)))
    ELSE IF ULt(val, Pow2(28, 64)) THEN
        write_u32(writer, BOr(Trunc(val, 32), Shl(FromNat(3, 32), 28)))
    ELSE IF ULt(val, Pow2(36, 64)) THEN
        LET w == write_u8(writer, BOr(Trunc(Shr(val, 32), 8), Shl(FromNat(4, 8), 4)))
        IN  Try(w, write_u32(w, Trunc(val, 32)))
    ELSE IF ULt(val, Pow2(44, 64)) THEN
        LET w == write_u16(writer, BOr(Trunc(Shr(val, 32), 16), Shl(FromNat(5, 16), 12)))
        IN  Try(w, write_u32(w, Trunc(val, 32)))
    ELSE IF ULt(val, Pow2(52, 64)) THEN
        LET w  == write_u8(writer, BOr(Trunc(Shr(val, 48), 8), Shl(FromNat(6, 8), 4)))
            w2 == Try(w, write_u16(w, Trunc(Shr(val, 32), 16)))
        IN  Try(w2, write_u32(w2, Trunc(val, 32)))
    ELSE IF ULt(val, Pow2(60, 64)) THEN
        write_u64(writer, BOr(val, Shl(FromNat(7, 64), 60)))
    ELSE
        LET w == write_u8(writer, Shl(FromNat(8, 8), 4))
        IN  Try(w, write_u64(w, val))

(* u64::overflowing_shl: the shift amount is taken modulo the width.       *)
overflowing_shl(x, k) == Shl(x, k % Len(x))

(* The loop written for i in 1..n: the last trailing byte is not read.     *)
RECURSIVE var_u64_loop_excl(_, _, _, _, _, _)
var_u64_loop_excl(reader, pos, n, i, val, ovf) ==
    IF i >= n THEN [st |-> "ok", val |-> val, pos |-> pos, ovf |-> ovf]
    ELSE IF pos + 1 > Len(reader) THEN UnexpectedEof(pos)
    ELSE LET byte == FromNat(reader[pos + 1], 8)
             sh   == (n - i) * 8
             term == Shl(ZExt(byte, 64), sh % 64)
         IN  var_u64_loop_excl(reader, pos + 1, n, i + 1, Add(val, term),
                               ovf \/ sh >= 64 \/ AddCarries(val, term))

(* The loop of deserialize_var_u64, from trailing byte i on.  ovf records  *)
(* that a shift by 64 or more, or an addition that carries out of 64 bits, *)
(* happened: a build with overflow checks panics there, a build without    *)
(* them masks the shift amount and wraps the sum, which val follows.       *)
RECURSIVE var_u64_loop(_, _, _, _, _, _)
var_u64_loop(reader, pos, n, i, val, ovf) ==
    IF i >= n + 1 THEN [st |-> "ok", val |-> val, pos |-> pos, ovf |-> ovf]
    ELSE IF pos + 1 > Len(reader) THEN UnexpectedEof(pos)
    ELSE IF reader[pos + 1] = IoFailure THEN IoError(pos + 1)
    ELSE LET byte == FromNat(reader[pos + 1], 8)
             sh   == (n - i) * 8
             term == Shl(ZExt(byte, 64), sh % 64)
         IN  var_u64_loop(reader, pos + 1, n, i + 1, Add(val, term),
                          ovf \/ sh >= 64 \/ AddCarries(val, term))

(* deserialize_var_u64 with the header's low nibble left unshifted.        *)
deserialize_var_u64_unshifted(reader, pos) ==
    IF pos + 1 > Len(reader) THEN UnexpectedEof(pos)
    ELSE LET header == FromNat(reader[pos + 1], 8)
             n      == ToNat(Shr(header, 4))
             val    == ZExt(BAnd(header, FromNat(15, 8)), 64)
         IN  var_u64_loop(reader, pos + 1, n, 1, val, FALSE)

deserialize_var_u64(reader, pos) ==
    IF pos + 1 > Len(reader) THEN UnexpectedEof(pos)
    ELSE IF reader[pos + 1] = IoFailure THEN IoError(pos + 1)
    ELSE LET header == FromNat(reader[pos + 1], 8)
             n      == ToNat(Shr(header, 4))
             val    == overflowing_shl(ZExt(BAnd(header, FromNat(15, 8)), 64), n * 8)
         IN  var_u64_loop(reader, pos + 1, n, 1, val, FALSE)

(* The boundary values of the nine length classes, as test_usize_2 lists   *)
(* them, and values whose bytes all differ.                                *)
SamplesVarU64 ==
    UNION {Near(c) : c \in {Pow2(k, 64) : k \in {4, 12, 20, 28, 36, 44, 52, 60}}
                           \cup {Zero(64)}}
    \cup {Shr(Pattern64, 8 * k) : k \in 0..7} \cup {BNot(Pattern64)}

EmitVarU64 ==
    \E e \in Encoders, v \in SamplesVarU64 :
        Encoded(e, "var_u64", v, emit_var_u64(<<>>, v))

DeserializeVarU64 ==
    /\ CanDeserialize
    /\ Deserialized("var_u64", deserialize_var_u64(Reader, dec.pos))

NextVarU64 == EmitVarU64 \/ DeserializeVarU64

SpecVarU64 == Init /\ [][NextVarU64]_vars


(* C1: what deserialize_var_u64 returns on the bytes emit_var_u64(v) wrote *)
(* is v, and it has consumed exactly those bytes; no overflow check trips, *)
(* also for v >= 2^60, where the header is shifted by 64 bits.             *)
RoundTripVarU64 ==
    (enc[1].ty = "var_u64" /\ dec.ty = "var_u64" /\ dec.at = 0)
        => dec.res = Ok(enc[1].val, Len(enc[1].writer))

WitnessRoundTripVarU64 ==
    /\ enc[1].ty = "var_u64" /\ dec.ty = "var_u64" /\ dec.at = 0
    /\ ~ULt(enc[1].val, Pow2(60, 64))
    /\ dec.reader[1] = 128 /\ dec.res.st = "ok" /\ dec.res.pos = 9

(* C3: a < b exactly when emit_var_u64(a) is below emit_var_u64(b) in the  *)
(* lexicographic order of unsigned bytes, whatever the two lengths.        *)
OrderVarU64 ==
    (enc[1].ty = "var_u64" /\ enc[2].ty = "var_u64")
        => (ULt(enc[1].val, enc[2].val) <=> LexLt(enc[1].writer, enc[2].writer))

WitnessOrderVarU64 ==
    /\ enc[1].ty = "var_u64" /\ enc[2].ty = "var_u64"
    /\ ULt(enc[2].val, enc[1].val)
    /\ Len(enc[2].writer) = 2 /\ Len(enc[1].writer) = 3

(* The length class the table of 4.2.1 gives a value.                      *)
ClassVarU64(v) ==
    CHOOSE N \in 0..8 :
        \/ N = 0 /\ ULt(v, Pow2(4, 64))
        \/ N \in 1..7 /\ ~ULt(v, Pow2(8 * N - 4, 64)) /\ ULt(v, Pow2(8 * N + 4, 64))
        \/ N = 8 /\ ~ULt(v, Pow2(60, 64))

(* C5: emit_var_u64(v) writes 1+N bytes, N the class of v; the header's    *)
(* high nibble is N, its low nibble the top 4 value bits (0 when N = 8),   *)
(* and the N trailing bytes are the low 8N bits of v, big-endian.          *)
LayoutVarU64 ==
    \A e \in Encoders :
        enc[e].ty = "var_u64" =>
            LET v == enc[e].val
                w == enc[e].writer
                N == ClassVarU64(v)
            IN  /\ Len(w) = 1 + N
                /\ w[1] \div 16 = N
                /\ w[1] % 16 = (IF N < 8 THEN ToNat(Trunc(Shr(v, 8 * N), 8)) ELSE 0)
                /\ SubSeq(w, 2, 1 + N) = Bytes(Trunc(v, 8 * N))
                /\ v = FromInt(15, 64) => w = <<15>>
                /\ v = Pow2(4, 64) => w = <<16, 16>>
                /\ v = Add(Pow2(60, 64), Ones(64)) => w = <<127, 255, 255, 255, 255, 255, 255, 255>>
                /\ v = Pow2(60, 64) => w = <<128, 16, 0, 0, 0, 0, 0, 0, 0>>

WitnessLayoutVarU64 ==
    /\ enc[1].ty = "var_u64" /\ enc[1].val = Pow2(60, 64) /\ Len(enc[1].writer) = 9
    /\ enc[2].ty = "var_u64" /\ enc[2].val = Pow2(4, 64) /\ Len(enc[2].writer) = 2


-----------------------------------------------------------------------------
(* Variable-length i64.                                                    *)

(* SignedInt::abs: the value itself for i64::MIN, whose negation wraps.    *)
abs(v) == IF v[1] = 1 THEN Neg(v) ELSE v

(* The mask taken after a cast to u64: 1, not all ones, on a negative v.   *)
var_i64_mask_logical(v) == Shr(v, 63)

(* let mask = (v >> 63) as u64;                                            *)
var_i64_mask(v) == Sar(v, 63)

(* The magnitude without the 1 taken off a negative value.                 *)
var_i64_val_abs(v) == abs(v)

(* let val = v.abs() as u64 - (1 & mask);                                  *)
var_i64_val(v) == Sub(abs(v), BAnd(FromNat(1, 64), var_i64_mask(v)))

emit_var_i64(writer, v) ==
    LET mask == var_i64_mask(v)
        val  == var_i64_val(v)
    IN  IF ULt(val, Pow2(3, 64)) THEN
            LET masked == BXor(BOr(val, Shl(FromNat(16, 64), 3)), mask)
            IN  write_u8(writer, Trunc(masked, 8))
        ELSE IF ULt(val, Pow2(11, 64)) THEN
            LET masked == BXor(BOr(val, Shl(FromNat(17, 64), 11)), mask)
            IN  write_u16(writer, Trunc(masked, 16))
        ELSE IF ULt(val, Pow2(19, 64)) THEN
            LET masked == BXor(BOr(val, Shl(FromNat(18, 64), 19)), mask)
                w      == write_u8(writer, Trunc(Shr(masked, 16), 8))
            IN  Try(w, write_u16(w, Trunc(masked, 16)))
        ELSE IF ULt(val, Pow2(27, 64)) THEN
            LET masked == BXor(BOr(val, Shl(FromNat(19, 64), 27)), mask)
            IN  write_u32(writer, Trunc(masked, 32))
        ELSE IF ULt(val, Pow2(35, 64)) THEN
            LET masked == BXor(BOr(val, Shl(FromNat(20, 64), 35)), mask)
                w      == write_u8(writer, Trunc(Shr(masked, 32), 8))
            IN  Try(w, write_u32(w, Trunc(masked, 32)))
        ELSE IF ULt(val, Pow2(43, 64)) THEN
            LET masked == BXor(BOr(val, Shl(FromNat(21, 64), 43)), mask)
                w      == write_u16(writer, Trunc(Shr(masked, 32), 16))
            IN  Try(w, write_u32(w, Trunc(masked, 32)))
        ELSE IF ULt(val, Pow2(51, 64)) THEN
            LET masked == BXor(BOr(val, Shl(FromNat(22, 64), 51)), mask)
                w      == write_u8(writer, Trunc(Shr(masked, 48), 8))
                w2     == Try(w, write_u16(w, Trunc(Shr(masked, 32), 16)))
            IN  Try(w2, write_u32(w2, Trunc(masked, 32)))
        ELSE IF ULt(val, Pow2(59, 64)) THEN
            LET masked == BXor(BOr(val, Shl(FromNat(23, 64), 59)), mask)
            IN  write_u64(writer, masked)
        ELSE
            LET w == write_u8(writer, BXor(Shl(FromNat(24, 8), 3), Trunc(mask, 8)))
            IN  Try(w, write_u64(w, BXor(val, mask)))

(* The loop of deserialize_var_i64; ovf as in var_u64_loop.                *)
RECURSIVE var_i64_loop(_, _, _, _, _, _, _)
var_i64_loop(reader, pos, mask, n, i, val, ovf) ==
    IF i >= n + 1 THEN [st |-> "ok", val |-> val, pos |-> pos, ovf |-> ovf]
    ELSE IF pos + 1 > Len(reader) THEN UnexpectedEof(pos)
    ELSE IF reader[pos + 1] = IoFailure THEN IoError(pos + 1)
    ELSE LET byte == FromNat(reader[pos + 1], 8)
             sh   == (n - i) * 8
             term == Shl(ZExt(BXor(byte, mask), 64), sh % 64)
         IN  var_i64_loop(reader, pos + 1, mask, n, i + 1, Add(val, term),
                          ovf \/ sh >= 64 \/ AddCarries(val, term))

(* The final mask without the shift that spreads the sign.                 *)
var_i64_final_mask_unspread(mask) == Sar(ZExt(mask, 64), 63)

(* let final_mask = (((mask as i64) << 63) >> 63) as u64;                  *)
var_i64_final_mask(mask) == Sar(Shl(ZExt(mask, 64), 63), 63)

deserialize_var_i64(reader, pos) ==
    IF pos + 1 > Len(reader) THEN UnexpectedEof(pos)
    ELSE IF reader[pos + 1] = IoFailure THEN IoError(pos + 1)
    ELSE LET header == FromNat(reader[pos + 1], 8)
             mask   == Sar(BXor(header, FromNat(128, 8)), 7)
             n      == ToNat(BAnd(BXor(Shr(header, 3), mask), FromNat(15, 8)))
             val    == overflowing_shl(
                           ZExt(BAnd(BXor(header, mask), FromNat(7, 8)), 64), n * 8)
             r      == var_i64_loop(reader, pos + 1, mask, n, 1, val, FALSE)
         IN  IF r.st = "ok"
             THEN [r EXCEPT !.val = BXor(r.val, var_i64_final_mask(mask))]
             ELSE r

(* The boundary values of the length classes on both sides of 0, as        *)
(* test_isize_2 lists them, and values whose bytes all differ.             *)
SamplesVarI64 ==
    UNION {Near(c) : c \in {Pow2(k, 64) : k \in {3, 11, 19, 27, 35, 43, 51, 59}}
                           \cup {Neg(Pow2(k, 64)) : k \in {3, 11, 19, 27, 35, 43, 51, 59}}
                           \cup {Zero(64), MinSigned(64)}}
    \cup {Shr(Pattern64, 8 * k) : k \in 0..7}
    \cup {BNot(Shr(Pattern64, 8 * k)) : k \in 0..7}

EmitVarI64 ==
    \E e \in Encoders, v \in SamplesVarI64 :
        Encoded(e, "var_i64", v, emit_var_i64(<<>>, v))

DeserializeVarI64 ==
    /\ CanDeserialize
    /\ Deserialized("var_i64", deserialize_var_i64(Reader, dec.pos))

NextVarI64 == EmitVarI64 \/ DeserializeVarI64

SpecVarI64 == Init /\ [][NextVarI64]_vars

(* C2: what deserialize_var_i64 returns on the bytes emit_var_i64(v) wrote *)
(* is v, and it has consumed exactly those bytes, for every v sampled:     *)
(* i64::MIN, i64::MAX, -1, 0 and both sides of every class boundary.       *)
RoundTripVarI64 ==
    (enc[1].ty = "var_i64" /\ dec.ty = "var_i64" /\ dec.at = 0)
        => dec.res = Ok(enc[1].val, Len(enc[1].writer))

WitnessRoundTripVarI64 ==
    /\ enc[1].ty = "var_i64" /\ dec.ty = "var_i64" /\ dec.at = 0
    /\ enc[1].val = MinSigned(64)
    /\ dec.res.st = "ok" /\ dec.res.pos = 9

(* C4: a < b as i64 exactly when emit_var_i64(a) is below emit_var_i64(b)  *)
(* in the lexicographic order of unsigned bytes; -1 is the byte 7F and 0   *)
(* the byte 80, with no encoding between them.                             *)
OrderVarI64 ==
    (enc[1].ty = "var_i64" /\ enc[2].ty = "var_i64")
        => /\ SLt(enc[1].val, enc[2].val) <=> LexLt(enc[1].writer, enc[2].writer)
           /\ (enc[1].val[1] = 1 /\ enc[2].val[1] = 0)
                  => LexLt(enc[1].writer, enc[2].writer)
           /\ (enc[1].val = Ones(64) /\ enc[2].val = Zero(64))
                  => enc[1].writer = <<127>> /\ enc[2].writer = <<128>>

WitnessOrderVarI64 ==
    /\ enc[1].ty = "var_i64" /\ enc[2].ty = "var_i64"
    /\ enc[1].val = MinSigned(64) /\ enc[2].val = Ones(64)
    /\ Len(enc[1].writer) = 9 /\ Len(enc[2].writer) = 1

(* The length class the table of 4.2.2 gives a magnitude m.                *)
ClassVarI64(m) ==
    CHOOSE N \in 0..8 :
        \/ N = 0 /\ ULt(m, Pow2(3, 64))
        \/ N \in 1..7 /\ ~ULt(m, Pow2(8 * N - 5, 64)) /\ ULt(m, Pow2(8 * N + 3, 64))
        \/ N = 8 /\ ~ULt(m, Pow2(59, 64))

(* C6: emit_var_i64(v) writes 1+N bytes, N the class of m = |v| less 1 for *)
(* a negative v (which is the complement of v); the top bit of the first   *)
(* byte is 1 for v >= 0 and 0 for v < 0, and its bits 6..3 are N for       *)
(* v >= 0 and the complement of N for v < 0.                               *)
LayoutVarI64 ==
    \A e \in Encoders :
        enc[e].ty = "var_i64" =>
            LET v == enc[e].val
                w == enc[e].writer
                m == IF v[1] = 1 THEN BNot(v) ELSE v
                N == ClassVarI64(m)
            IN  /\ Len(w) = 1 + N
                /\ w[1] \div 128 = 1 - v[1]
                /\ (w[1] \div 8) % 16 = (IF v[1] = 0 THEN N ELSE 15 - N)
                /\ v = Zero(64) => w = <<128>>
                /\ v = Ones(64) => w = <<127>>
                /\ v = Neg(Pow2(3, 64)) => w = <<120>>
                /\ v = Pow2(3, 64) => w = <<136, 8>>
                /\ v = MinSigned(64) => w = <<63, 128, 0, 0, 0, 0, 0, 0, 0>>
                /\ v = BNot(MinSigned(64))
                       => w = <<192, 127, 255, 255, 255, 255, 255, 255, 255>>

WitnessLayoutVarI64 ==
    /\ enc[1].ty = "var_i64" /\ enc[1].val = MinSigned(64) /\ enc[1].writer[1] = 63
    /\ enc[2].ty = "var_i64" /\ enc[2].val = Neg(Pow2(3, 64)) /\ Len(enc[2].writer) = 1


-----------------------------------------------------------------------------
(* Fixed-width integers.                                                   *)

emit_u8(writer, v) == write_u8(writer, v)

emit_u16(writer, v) == write_u16(writer, v)

emit_u32(writer, v) == write_u32(writer, v)

emit_u64(writer, v) == write_u64(writer, v)

emit_i8(writer, v) == write_i8(writer, BXor(v, MinSigned(8)))

(* The bitwise complement the encoder's documentation speaks of.           *)
emit_i16_complement(writer, v) == write_i16(writer, BNot(v))

emit_i16(writer, v) == write_i16(writer, BXor(v, MinSigned(16)))

emit_i32(writer, v) == write_i32(writer, BXor(v, MinSigned(32)))

emit_i64(writer, v) == write_i64(writer, BXor(v, MinSigned(64)))

(* byteorder's ReadBytesExt: the next k bytes as one big-endian word.  On  *)
(* too few bytes the position the reader is left at is not relied on.      *)
read_be(reader, pos, k) ==
    LET last    == IF pos + k > Len(reader) THEN Len(reader) ELSE pos + k
        failing == {j \in (pos + 1)..last : reader[j] = IoFailure}
    IN  IF failing # {}
        THEN IoError(CHOOSE j \in failing : \A i \in failing : j <= i)
        ELSE IF pos + k > Len(reader) THEN UnexpectedEof(pos)
        ELSE Ok(FromBytes(SubSeq(reader, pos + 1, pos + k)), pos + k)

(* The value of an ok result passed through f (the ? operator otherwise).  *)
XorMin(r) == IF r.st = "ok" THEN [r EXCEPT !.val = BXor(r.val, MinSigned(Len(r.val)))] ELSE r

deserialize_u8(reader, pos) == read_be(reader, pos, 1)

deserialize_u16(reader, pos) == read_be(reader, pos, 2)

deserialize_u32(reader, pos) == read_be(reader, pos, 4)

deserialize_u64(reader, pos) == read_be(reader, pos, 8)

deserialize_i8(reader, pos) == XorMin(read_be(reader, pos, 1))

deserialize_i16(reader, pos) == XorMin(read_be(reader, pos, 2))

deserialize_i32(reader, pos) == XorMin(read_be(reader, pos, 4))

deserialize_i64(reader, pos) == XorMin(read_be(reader, pos, 8))

(* Inputs of a w-bit type: around 0 and MAX, around the sign change, and   *)
(* values whose bytes all differ.                                          *)
SamplesFixed(w) ==
    Near(Zero(w)) \cup Near(MinSigned(w))
    \cup {Trunc(Pattern64, w), BNot(Trunc(Pattern64, w))}

EmitU8 == \E e \in Encoders, v \in SamplesFixed(8) : Encoded(e, "u8", v, emit_u8(<<>>, v))

EmitU16 == \E e \in Encoders, v \in SamplesFixed(16) : Encoded(e, "u16", v, emit_u16(<<>>, v))

EmitU32 == \E e \in Encoders, v \in SamplesFixed(32) : Encoded(e, "u32", v, emit_u32(<<>>, v))

EmitU64 == \E e \in Encoders, v \in SamplesFixed(64) : Encoded(e, "u64", v, emit_u64(<<>>, v))

EmitI8 == \E e \in Encoders, v \in SamplesFixed(8) : Encoded(e, "i8", v, emit_i8(<<>>, v))

EmitI16 == \E e \in Encoders, v \in SamplesFixed(16) : Encoded(e, "i16", v, emit_i16(<<>>, v))

EmitI32 == \E e \in Encoders, v \in SamplesFixed(32) : Encoded(e, "i32", v, emit_i32(<<>>, v))

EmitI64 == \E e \in Encoders, v \in SamplesFixed(64) : Encoded(e, "i64", v, emit_i64(<<>>, v))

DeserializeU8 == CanDeserialize /\ Deserialized("u8", deserialize_u8(Reader, dec.pos))

DeserializeU16 == CanDeserialize /\ Deserialized("u16", deserialize_u16(Reader, dec.pos))

DeserializeU32 == CanDeserialize /\ Deserialized("u32", deserialize_u32(Reader, dec.pos))

DeserializeU64 == CanDeserialize /\ Deserialized("u64", deserialize_u64(Reader, dec.pos))

DeserializeI8 == CanDeserialize /\ Deserialized("i8", deserialize_i8(Reader, dec.pos))

DeserializeI16 == CanDeserialize /\ Deserialized("i16", deserialize_i16(Reader, dec.pos))

DeserializeI32 == CanDeserialize /\ Deserialized("i32", deserialize_i32(Reader, dec.pos))

DeserializeI64 == CanDeserialize /\ Deserialized("i64", deserialize_i64(Reader, dec.pos))

NextFixed ==
    \/ EmitU8 \/ EmitU16 \/ EmitU32 \/ EmitU64
    \/ EmitI8 \/ EmitI16 \/ EmitI32 \/ EmitI64
    \/ DeserializeU8 \/ DeserializeU16 \/ DeserializeU32 \/ DeserializeU64
    \/ DeserializeI8 \/ DeserializeI16 \/ DeserializeI32 \/ DeserializeI64

SpecFixed == Init /\ [][NextFixed]_vars

UnsignedTypes == {"u8", "u16", "u32", "u64"}

SignedTypes == {"i8", "i16", "i32", "i64"}

-----------------------------------------------------------------------------
(* Floating point.  A float is its IEEE-754 bit pattern (transmute).       *)

(* The transform of the integers: only the sign bit is flipped.            *)
emit_f32_signflip(writer, v) == write_i32(writer, BXor(v, MinSigned(32)))

emit_f32(writer, v) ==
    LET val == v
        t   == BOr(Sar(val, 31), MinSigned(32))
    IN  write_i32(writer, BXor(val, t))

emit_f64(writer, v) ==
    LET val == v
        t   == BOr(Sar(val, 63), MinSigned(64))
    IN  write_i64(writer, BXor(val, t))

deserialize_f32(reader, pos) ==
    LET r == read_be(reader, pos, 4)
    IN  IF r.st # "ok" THEN r
        ELSE LET val == r.val
                 t   == BOr(Sar(BXor(val, MinSigned(32)), 31), MinSigned(32))
             IN  [r EXCEPT !.val = BXor(val, t)]

(* t taken from the top bit as read, as the encoder takes it.              *)
deserialize_f64_as_emit(reader, pos) ==
    LET r == read_be(reader, pos, 8)
    IN  IF r.st # "ok" THEN r
        ELSE LET val == r.val
                 t   == BOr(Sar(val, 63), MinSigned(64))
             IN  [r EXCEPT !.val = BXor(val, t)]

deserialize_f64(reader, pos) ==
    LET r == read_be(reader, pos, 8)
    IN  IF r.st # "ok" THEN r
        ELSE LET val == r.val
                 t   == BOr(Sar(BXor(val, MinSigned(64)), 63), MinSigned(64))
             IN  [r EXCEPT !.val = BXor(val, t)]

(* The bits of the exponent of binary32 and binary64.                      *)
ExponentBits(x) == IF Len(x) = 32 THEN 8 ELSE 11

IsNaN(x) ==
    /\ \A i \in 2..(1 + ExponentBits(x)) : x[i] = 1
    /\ \E i \in (2 + ExponentBits(x))..Len(x) : x[i] = 1

Infinity(w) == Shl(Shr(Ones(w), IF w = 32 THEN 24 ELSE 53), IF w = 32 THEN 23 ELSE 52)

NegInfinity(w) == BOr(MinSigned(w), Infinity(w))

IsZero(x) == \A i \in 2..Len(x) : x[i] = 0

(* a < b as partial_cmp decides it for two floats that are not NaN: the    *)
(* two zeros are equal, a negative is below a positive, and magnitudes     *)
(* order the rest.                                                         *)
FloatLt(a, b) ==
    /\ ~(IsZero(a) /\ IsZero(b))
    /\ \/ a[1] = 1 /\ b[1] = 0
       \/ a[1] = 0 /\ b[1] = 0 /\ ULt(Tail(a), Tail(b))
       \/ a[1] = 1 /\ b[1] = 1 /\ ULt(Tail(b), Tail(a))

(* Bit patterns around the special values of a w-bit float: the zeros, the *)
(* smallest subnormals, MIN_POSITIVE, 1.0, MAX, the infinities, and the    *)
(* least and greatest signaling and quiet NaN payloads of either sign.     *)
SamplesFloat(w) ==
    LET one == Shl(Shr(Ones(w), IF w = 32 THEN 25 ELSE 54), IF w = 32 THEN 23 ELSE 52)
        minp == Pow2(IF w = 32 THEN 23 ELSE 52, w)
        quiet == BOr(Infinity(w), Pow2(IF w = 32 THEN 22 ELSE 51, w))
        pos == {Zero(w), FromNat(1, w), minp, one, Infinity(w),
                Add(Infinity(w), FromNat(1, w)), quiet}
    IN  UNION {Near(c) : c \in pos \cup {BOr(MinSigned(w), c) : c \in pos}}

EmitF32 == \E e \in Encoders, v \in SamplesFloat(32) : Encoded(e, "f32", v, emit_f32(<<>>, v))

EmitF64 == \E e \in Encoders, v \in SamplesFloat(64) : Encoded(e, "f64", v, emit_f64(<<>>, v))

DeserializeF32 == CanDeserialize /\ Deserialized("f32", deserialize_f32(Reader, dec.pos))

DeserializeF64 == CanDeserialize /\ Deserialized("f64", deserialize_f64(Reader, dec.pos))

NextFloat == EmitF32 \/ EmitF64 \/ DeserializeF32 \/ DeserializeF64

SpecFloat == Init /\ [][NextFloat]_vars

FloatTypes == {"f32", "f64"}

BothFloats == enc[1].ty \in FloatTypes /\ enc[2].ty = enc[1].ty

NaNAboveInfinity ==
    BothFloats =>
        /\ (IsNaN(enc[1].val) /\ enc[2].val = Infinity(Len(enc[2].val)))
               => LexLt(enc[2].writer, enc[1].writer)
        /\ enc[1].val = NegInfinity(Len(enc[1].val))
               => ~LexLt(enc[2].writer, enc[1].writer)

(* C10: decoding the encoding of any bit pattern, -0.0, the infinities and *)
(* the NaNs of any payload included, returns that bit pattern.             *)
RoundTripFloat ==
    (enc[1].ty \in FloatTypes /\ dec.ty = enc[1].ty /\ dec.at = 0)
        => dec.res = Ok(enc[1].val, Len(enc[1].val) \div 8)

WitnessRoundTripFloat ==
    /\ enc[1].ty = "f64" /\ dec.ty = "f64" /\ dec.at = 0
    /\ enc[1].val = Add(NegInfinity(64), FromNat(1, 64))
    /\ IsNaN(dec.res.val) /\ dec.res.val[1] = 1 /\ dec.res.pos = 8


-----------------------------------------------------------------------------
(* Booleans, characters, strings and platform-width integers.  A bool is   *)
(* TRUE or FALSE, a char its code point, a String the bytes it holds (its  *)
(* UTF-8), a usize or isize a 64-bit word.                                 *)

(* A usize written as the u64 it is cast to.                               *)
emit_usize_fixed(writer, v) == emit_u64(writer, v)

emit_usize(writer, v) == emit_var_u64(writer, v)

emit_isize(writer, v) == emit_var_i64(writer, v)

emit_bool(writer, v) == write_u8(writer, IF v THEN FromNat(1, 8) ELSE FromNat(0, 8))

(* char::encode_utf8: the 1 to 4 bytes of a code point.                    *)
encode_utf8(c) ==
    IF c < 128 THEN <<c>>
    ELSE IF c < 2048 THEN <<192 + (c \div 64), 128 + (c % 64)>>
    ELSE IF c < 65536 THEN
        <<224 + (c \div 4096), 128 + ((c \div 64) % 64), 128 + (c % 64)>>
    ELSE <<240 + (c \div 262144), 128 + ((c \div 4096) % 64),
           128 + ((c \div 64) % 64), 128 + (c % 64)>>

emit_char(writer, v) == writer \o encode_utf8(v)

(* The string written without its terminator.                              *)
emit_str_unterminated(writer, v) == writer \o v

emit_str(writer, v) == write_u8(writer \o v, Zero(8))

-----------------------------------------------------------------------------
(* The types the tests and the documentation encode, by name, and the      *)
(* shape the derived Encodable / Decodable of each walks.                  *)

TupleTypes == {"(u8, String)", "(String, u8)", "(usize, u8)", "(isize, char)",
               "(bool, String)", "(char, u8)"}

StructTypes == {"MyKey"}

OptionTypes == {"Option<u8>", "Option<String>"}

EnumTypes == {"TestEnum", "TestEnum+D"}

(* A fixed-size array, which serde walks as a tuple of its elements.       *)
ArrayTypes == {"[u8; 2]"}

(* Sequences of any length, which the Deserializer reads to the end of the *)
(* input; [u8; 2] elements are read by deserialize_tuple as 2-tuples are.  *)
SeqTypes == {"Vec<u16>", "Vec<[u8; 2]>"}

(* A map, which the Deserializer reads as keys and values in turn to the   *)
(* end of the input.                                                       *)
MapTypes == {"BTreeMap<u16, u8>"}

(* The field types of a tuple or struct, the element types of an array or  *)
(* sequence, the key and value types of a map, the payload type of an      *)
(* option.                                                                 *)
Fields(ty) ==
    CASE ty = "(u8, String)"   -> <<"u8", "String">>
      [] ty = "(String, u8)"   -> <<"String", "u8">>
      [] ty = "(usize, u8)"    -> <<"usize", "u8">>
      [] ty = "(isize, char)"  -> <<"isize", "char">>
      [] ty = "(bool, String)" -> <<"bool", "String">>
      [] ty = "(char, u8)"     -> <<"char", "u8">>
      [] ty = "MyKey"          -> <<"u32", "String">>
      [] ty = "[u8; 2]"        -> <<"u8", "u8">>
      [] ty = "Vec<u16>"       -> <<"u16">>
      [] ty = "Vec<[u8; 2]>"   -> <<"[u8; 2]">>
      [] ty = "BTreeMap<u16, u8>" -> <<"u16", "u8">>
      [] ty = "Option<u8>"     -> <<"u8">>
      [] ty = "Option<String>" -> <<"String">>

(* The payload types of each variant of an enum, in declared order:        *)
(* enum TestEnum { A(u32, String), B, C(isize) }, and the same enum with a *)
(* variant D(u8) appended.                                                 *)
Variants(ty) ==
    CASE ty = "TestEnum"   -> << <<"u32", "String">>, <<>>, <<"isize">> >>
      [] ty = "TestEnum+D" -> << <<"u32", "String">>, <<>>, <<"isize">>, <<"u8">> >>

RECURSIVE encode(_, _, _), emit_fields(_, _, _, _)

(* The closure a derived Encodable passes to emit_tuple, emit_struct or    *)
(* emit_enum_variant: the fields from the i-th on, in declared order.      *)
emit_fields(writer, tys, vs, i) ==
    IF i > Len(tys) THEN writer
    ELSE emit_fields(encode(writer, tys[i], vs[i]), tys, vs, i + 1)

(* The fields written last to first.                                       *)
RECURSIVE emit_tuple_reversed(_, _, _)
emit_tuple_reversed(writer, tys, vs) ==
    IF tys = <<>> THEN writer
    ELSE encode(emit_tuple_reversed(writer, Tail(tys), Tail(vs)), tys[1], vs[1])

emit_tuple(writer, tys, vs) == emit_fields(writer, tys, vs, 1)

emit_struct(writer, tys, vs) == emit_fields(writer, tys, vs, 1)

(* The Serializer of an array, which is not in the sources (emit_seq of    *)
(* the Encoder is unimplemented): the elements one after the other, as the *)
(* specification says and as deserialize_tuple reads them.                 *)
serialize_tuple(writer, tys, vs) == emit_fields(writer, tys, vs, 1)

(* The payload written with no presence byte before it.                    *)
emit_option_some_untagged(writer, ty, v) == encode(writer, ty, v)

emit_option_some(writer, ty, v) == encode(emit_bool(writer, TRUE), ty, v)

(* An Option<T> is <<>> for None and <<v>> for Some(v); emit_option_none   *)
(* is emit_bool(false).                                                    *)
emit_option(writer, ty, v) ==
    IF Len(v) = 0 THEN emit_bool(writer, FALSE)
    ELSE emit_option_some(writer, ty, v[1])

(* The variant index written as a fixed-width u32.                         *)
emit_enum_variant_u32(writer, id, tys, args) ==
    emit_fields(emit_u32(writer, FromNat(id, 32)), tys, args, 1)

(* A value of an enum is [id |-> variant index, args |-> payload].         *)
emit_enum_variant(writer, id, tys, args) ==
    emit_fields(emit_usize(writer, FromNat(id, 64)), tys, args, 1)

(* Encodable::encode of a value v of the type named ty.                    *)
encode(writer, ty, v) ==
    CASE ty = "u8"     -> emit_u8(writer, v)
      [] ty = "u32"    -> emit_u32(writer, v)
      [] ty = "u64"    -> emit_u64(writer, v)
      [] ty = "i64"    -> emit_i64(writer, v)
      [] ty = "usize"  -> emit_usize(writer, v)
      [] ty = "isize"  -> emit_isize(writer, v)
      [] ty = "bool"   -> emit_bool(writer, v)
      [] ty = "char"   -> emit_char(writer, v)
      [] ty = "String" -> emit_str(writer, v)
      [] ty \in TupleTypes  -> emit_tuple(writer, Fields(ty), v)
      [] ty \in StructTypes -> emit_struct(writer, Fields(ty), v)
      [] ty \in ArrayTypes  -> serialize_tuple(writer, Fields(ty), v)
      [] ty \in OptionTypes -> emit_option(writer, Fields(ty)[1], v)
      [] ty \in EnumTypes   ->
             emit_enum_variant(writer, v.id, Variants(ty)[v.id + 1], v.args)


-----------------------------------------------------------------------------
(* UTF-8 as core::str validates it.                                        *)

(* UTF8_CHAR_WIDTH: the length a first byte announces, 0 for a byte that   *)
(* cannot start a sequence.                                                *)
utf8_char_width(b) ==
    IF b < 128 THEN 1
    ELSE IF b \in 194..223 THEN 2
    ELSE IF b \in 224..239 THEN 3
    ELSE IF b \in 240..244 THEN 4
    ELSE 0

(* run_utf8_validation on the sequence that starts at bs[i]: "ok" with its *)
(* length, "invalid" with Utf8Error::error_len, or "incomplete" when the   *)
(* input ends inside it (error_len is None).  The second byte of a three-  *)
(* or four-byte sequence admits no overlong form, no surrogate and nothing *)
(* above U+10FFFF.                                                         *)
Utf8Next(bs, i) ==
    LET IsContinuation(b) == b \in 128..191
        SecondOf3(first, b) ==
            \/ first = 224 /\ b \in 160..191
            \/ first \in 225..236 /\ IsContinuation(b)
            \/ first = 237 /\ b \in 128..159
            \/ first \in 238..239 /\ IsContinuation(b)
        SecondOf4(first, b) ==
            \/ first = 240 /\ b \in 144..191
            \/ first \in 241..243 /\ IsContinuation(b)
            \/ first = 244 /\ b \in 128..143
        first == bs[i]
        w     == utf8_char_width(first)
        has(k) == i + k <= Len(bs)
        R(kind, len) == [kind |-> kind, len |-> len]
    IN  IF w = 0 THEN R("invalid", 1)
        ELSE IF w = 1 THEN R("ok", 1)
        ELSE IF ~has(1) THEN R("incomplete", 0)
        ELSE IF w = 2 THEN
            IF IsContinuation(bs[i + 1]) THEN R("ok", 2) ELSE R("invalid", 1)
        ELSE IF w = 3 THEN
            IF ~SecondOf3(first, bs[i + 1]) THEN R("invalid", 1)
            ELSE IF ~has(2) THEN R("incomplete", 0)
            ELSE IF ~IsContinuation(bs[i + 2]) THEN R("invalid", 2)
            ELSE R("ok", 3)
        ELSE
            IF ~SecondOf4(first, bs[i + 1]) THEN R("invalid", 1)
            ELSE IF ~has(2) THEN R("incomplete", 0)
            ELSE IF ~IsContinuation(bs[i + 2]) THEN R("invalid", 2)
            ELSE IF ~has(3) THEN R("incomplete", 0)
            ELSE IF ~IsContinuation(bs[i + 3]) THEN R("invalid", 3)
            ELSE R("ok", 4)

(* Utf8Error::valid_up_to of bs read from index i on: how many bytes form  *)
(* whole valid sequences.                                                  *)
RECURSIVE valid_up_to(_, _)
valid_up_to(bs, i) ==
    IF i > Len(bs) THEN 0
    ELSE LET n == Utf8Next(bs, i)
         IN  IF n.kind = "ok" THEN n.len + valid_up_to(bs, i + n.len) ELSE 0

(* The code point of one valid sequence.                                   *)
decode_utf8(bs) ==
    IF Len(bs) = 1 THEN bs[1]
    ELSE IF Len(bs) = 2 THEN (bs[1] - 192) * 64 + (bs[2] - 128)
    ELSE IF Len(bs) = 3 THEN
        (bs[1] - 224) * 4096 + (bs[2] - 128) * 64 + (bs[3] - 128)
    ELSE (bs[1] - 240) * 262144 + (bs[2] - 128) * 4096
         + (bs[3] - 128) * 64 + (bs[4] - 128)

Failed(st, pos) == [st |-> st, val |-> <<>>, pos |-> pos, ovf |-> FALSE]

-----------------------------------------------------------------------------
(* The Decoder of decoder.rs, over an old_io reader.                       *)

(* The reader's error for too few bytes is an IoError of kind EndOfFile.   *)
old_io(r) == IF r.st = "Io(UnexpectedEof)" THEN Failed("IoError(EndOfFile)", r.pos) ELSE r

(* Decoder::read_var_u64: as deserialize_var_u64, the header shifted with  *)
(* the << operator.                                                        *)
read_var_u64(reader, pos) ==
    IF pos + 1 > Len(reader) THEN Failed("IoError(EndOfFile)", pos)
    ELSE LET header == FromNat(reader[pos + 1], 8)
             n      == ToNat(Shr(header, 4))
             val    == Shl(ZExt(BAnd(header, FromNat(15, 8)), 64), (n * 8) % 64)
         IN  old_io(var_u64_loop(reader, pos + 1, n, 1, val, n * 8 >= 64))

read_var_i64(reader, pos) ==
    IF pos + 1 > Len(reader) THEN Failed("IoError(EndOfFile)", pos)
    ELSE LET header == FromNat(reader[pos + 1], 8)
             mask   == Sar(BXor(header, FromNat(128, 8)), 7)
             n      == ToNat(BAnd(BXor(Shr(header, 3), mask), FromNat(15, 8)))
             val    == Shl(ZExt(BAnd(BXor(header, mask), FromNat(7, 8)), 64),
                           (n * 8) % 64)
             r      == var_i64_loop(reader, pos + 1, mask, n, 1, val, n * 8 >= 64)
         IN  IF r.st = "ok"
             THEN [r EXCEPT !.val = BXor(r.val, var_i64_final_mask(mask))]
             ELSE old_io(r)

read_bool(reader, pos) ==
    LET r == old_io(read_be(reader, pos, 1))
    IN  IF r.st = "ok" THEN [r EXCEPT !.val = ToNat(r.val) # 0] ELSE r

(* BufferedReader::read_char: the first byte gives the width, the bytes of *)
(* that width are read and validated.                                      *)
read_char(reader, pos) ==
    IF pos + 1 > Len(reader) THEN Failed("IoError(EndOfFile)", pos)
    ELSE LET width == utf8_char_width(reader[pos + 1])
         IN  IF width = 1 THEN Ok(reader[pos + 1], pos + 1)
             ELSE IF width = 0 THEN Failed("IoError(InvalidInput)", pos + 1)
             ELSE IF pos + width > Len(reader) THEN Failed("IoError(EndOfFile)", Len(reader))
             ELSE LET buf == SubSeq(reader, pos + 1, pos + width)
                  IN  IF Utf8Next(buf, 1).kind = "ok"
                      THEN Ok(decode_utf8(buf), pos + width)
                      ELSE Failed("IoError(InvalidInput)", pos + width)

(* Decoder::read_str from its loop on, string being what was pushed so     *)
(* far (empty at the call).                                                *)
RECURSIVE read_str(_, _, _)
read_str(reader, pos, string) ==
    LET c == read_char(reader, pos)
    IN  IF c.st # "ok" THEN c
        ELSE IF c.val = 0 THEN Ok(string, c.pos)
        ELSE read_str(reader, c.pos, string \o encode_utf8(c.val))

RECURSIVE decode(_, _, _), read_fields(_, _, _, _, _, _)

(* read_tuple, read_struct and the payload of read_enum_variant with the   *)
(* closure of a derived Decodable: the fields from the i-th on; vs are     *)
(* those decoded.                                                          *)
read_fields(reader, pos, tys, i, vs, ovf) ==
    IF i > Len(tys) THEN [st |-> "ok", val |-> vs, pos |-> pos, ovf |-> ovf]
    ELSE LET r == decode(reader, pos, tys[i])
         IN  IF r.st # "ok" THEN r
             ELSE read_fields(reader, r.pos, tys, i + 1, Append(vs, r.val),
                              ovf \/ r.ovf)

(* Decoder::read_option with the closure of Decodable for Option<T>.       *)
read_option(reader, pos, ty) ==
    LET is_some == read_bool(reader, pos)
    IN  IF is_some.st # "ok" THEN is_some
        ELSE IF ~is_some.val THEN Ok(<<>>, is_some.pos)
        ELSE LET r == decode(reader, is_some.pos, ty)
             IN  IF r.st = "ok" THEN [r EXCEPT !.val = <<r.val>>] ELSE r

(* The variants counted from the last one.                                 *)
read_enum_variant_from_last(reader, pos, variants) ==
    LET id == read_var_u64(reader, pos)
    IN  IF id.st # "ok" THEN id
        ELSE IF ULt(FromNat(Len(variants) - 1, 64), id.val)
        THEN Failed("unreachable", id.pos)
        ELSE LET k == Len(variants) - 1 - ToNat(Trunc(id.val, 8))
                 r == read_fields(reader, id.pos, variants[k + 1], 1, <<>>, id.ovf)
             IN  IF r.st = "ok"
                 THEN [r EXCEPT !.val = [id |-> k, args |-> r.val]]
                 ELSE r

(* Decoder::read_enum_variant with the closure of a derived Decodable: the *)
(* index read by read_usize (read_var_u64), then the match on it, whose    *)
(* default arm is unreachable!().                                          *)
read_enum_variant(reader, pos, variants) ==
    LET id == read_var_u64(reader, pos)
    IN  IF id.st # "ok" THEN id
        ELSE IF ULt(FromNat(Len(variants) - 1, 64), id.val)
        THEN Failed("unreachable", id.pos)
        ELSE LET k == ToNat(Trunc(id.val, 8))
                 r == read_fields(reader, id.pos, variants[k + 1], 1, <<>>, id.ovf)
             IN  IF r.st = "ok"
                 THEN [r EXCEPT !.val = [id |-> k, args |-> r.val]]
                 ELSE r

(* Decodable::decode of the type named ty.  The fixed-width reads are      *)
(* those of de.rs with the reader's error of old_io; read_usize and        *)
(* read_isize are the variable-length reads; an array is decoded with      *)
(* read_seq, which is unimplemented!().                                    *)
decode(reader, pos, ty) ==
    CASE ty = "u8"     -> old_io(deserialize_u8(reader, pos))
      [] ty = "u16"    -> old_io(deserialize_u16(reader, pos))
      [] ty = "u32"    -> old_io(deserialize_u32(reader, pos))
      [] ty = "var_u64" -> read_var_u64(reader, pos)
      [] ty = "var_i64" -> read_var_i64(reader, pos)
      [] ty = "u64"    -> old_io(deserialize_u64(reader, pos))
      [] ty = "i64"    -> old_io(deserialize_i64(reader, pos))
      [] ty = "usize"  -> read_var_u64(reader, pos)
      [] ty = "isize"  -> read_var_i64(reader, pos)
      [] ty = "bool"   -> read_bool(reader, pos)
      [] ty = "char"   -> read_char(reader, pos)
      [] ty = "String" -> read_str(reader, pos, <<>>)
      [] ty \in TupleTypes \cup StructTypes ->
             read_fields(reader, pos, Fields(ty), 1, <<>>, FALSE)
      [] ty \in ArrayTypes \cup SeqTypes \cup MapTypes -> Failed("unimplemented", pos)
      [] ty \in OptionTypes -> read_option(reader, pos, Fields(ty)[1])
      [] ty \in EnumTypes   -> read_enum_variant(reader, pos, Variants(ty))

-----------------------------------------------------------------------------
(* The Deserializer of de.rs on strings, characters and composite types.   *)
(* Its reader is the byte slice deserialize() was given, whose fill_buf    *)
(* returns all the bytes that are left.                                    *)

deserialize_bool_strict(reader, pos) ==
    LET r == read_be(reader, pos, 1)
    IN  IF r.st = "ok" THEN [r EXCEPT !.val = ToNat(r.val) = 1] ELSE r

deserialize_bool(reader, pos) ==
    LET r == read_be(reader, pos, 1)
    IN  IF r.st = "ok" THEN [r EXCEPT !.val = ToNat(r.val) # 0] ELSE r

(* utf8::BufReadDecoder::next_strict on a decoder d = [pos, bytes_consumed]*)
(* with nothing incomplete buffered: the bytes of the previous item are    *)
(* consumed now; then None at end of input, Ok with the longest valid      *)
(* prefix of the buffer, or InvalidByteSequence.  A sequence the input     *)
(* ends inside is buffered and consumed, the next buffer is empty, and the *)
(* item is InvalidByteSequence.  pos is where the reader is left, the      *)
(* bytes of the item returned not yet consumed.  The buffer fill_buf       *)
(* returns ends where the reader's next read fails, and the item is Io     *)
(* when fill_buf itself fails.                                             *)
next_strict(reader, d) ==
    LET p       == d.pos + d.bytes_consumed
        failing == {j \in (p + 1)..Len(reader) : reader[j] = IoFailure}
        last    == IF failing = {} THEN Len(reader)
                   ELSE (CHOOSE j \in failing : \A i \in failing : j <= i) - 1
        buf     == SubSeq(reader, p + 1, last)
        v       == valid_up_to(buf, 1)
        e       == Utf8Next(buf, 1)
    IN  IF buf = <<>> /\ failing # {}
        THEN [item |-> "Io", s |-> <<>>, pos |-> last + 1, bytes_consumed |-> 0]
        ELSE IF buf = <<>>
        THEN [item |-> "None", s |-> <<>>, pos |-> p, bytes_consumed |-> 0]
        ELSE IF v > 0
        THEN [item |-> "Ok", s |-> SubSeq(buf, 1, v), pos |-> p, bytes_consumed |-> v]
        ELSE IF e.kind = "invalid"
        THEN [item |-> "InvalidByteSequence", s |-> SubSeq(buf, 1, e.len),
              pos |-> p, bytes_consumed |-> e.len]
        ELSE IF failing # {}
        THEN [item |-> "Io", s |-> <<>>, pos |-> last + 1, bytes_consumed |-> 0]
        ELSE [item |-> "InvalidByteSequence", s |-> buf,
              pos |-> Len(reader), bytes_consumed |-> 0]

(* deserialize_str from its while let loop on: d is the BufReadDecoder     *)
(* (new at the call), string what was pushed so far.  A chunk that ends    *)
(* with EOF_STR is pushed without it; InvalidByteSequence breaks the loop, *)
(* and the visitor is given the string.                                    *)
RECURSIVE deserialize_str(_, _, _)
deserialize_str(reader, d, string) ==
    LET res == next_strict(reader, d)
        s   == res.s
    IN  IF res.item = "None" THEN Ok(string, res.pos)
        ELSE IF res.item = "Ok"
        THEN deserialize_str(
                 reader, [pos |-> res.pos, bytes_consumed |-> res.bytes_consumed],
                 string \o (IF s[Len(s)] = 0 THEN SubSeq(s, 1, Len(s) - 1) ELSE s))
        ELSE IF res.item = "Io" THEN IoError(res.pos)
        ELSE Ok(string, res.pos)

(* One call of next_strict; the decoder is dropped with the bytes of the   *)
(* item it returned not consumed.                                          *)
deserialize_char(reader, pos) ==
    LET res == next_strict(reader, [pos |-> pos, bytes_consumed |-> 0])
    IN  IF res.item = "Ok"
        THEN Ok(decode_utf8(SubSeq(res.s, 1, Utf8Next(res.s, 1).len)), res.pos)
        ELSE IF res.item = "None" THEN Failed("UnexpectedEof", res.pos)
        ELSE Failed("InvalidUtf8", res.pos)

RECURSIVE deserialize(_, _, _), next_element_seed(_, _, _, _, _, _)
RECURSIVE deserialize_seq(_, _, _, _, _), deserialize_map(_, _, _, _, _)

(* next_element_seed that reads the element after the one that failed      *)
(* before it returns the failure.                                          *)
next_element_seed_reading_on(reader, pos, tys, i, vs, ovf) ==
    IF i > Len(tys) THEN [st |-> "ok", val |-> vs, pos |-> pos, ovf |-> ovf]
    ELSE LET value == deserialize(reader, pos, tys[i])
         IN  IF value.st # "ok"
             THEN IF i = Len(tys) THEN value
                  ELSE [value EXCEPT !.pos = deserialize(reader, value.pos, tys[i + 1]).pos]
             ELSE next_element_seed(reader, value.pos, tys, i + 1,
                                    Append(vs, value.val), ovf \/ value.ovf)

(* deserialize_tuple (and deserialize_struct, tuple_variant, which call    *)
(* it): SeqAccess::next_element_seed, called by the visitor for the        *)
(* elements from the i-th on; len counts down to 0.                        *)
next_element_seed(reader, pos, tys, i, vs, ovf) ==
    IF i > Len(tys) THEN [st |-> "ok", val |-> vs, pos |-> pos, ovf |-> ovf]
    ELSE LET value == deserialize(reader, pos, tys[i])
         IN  IF value.st # "ok" THEN value
             ELSE next_element_seed(reader, value.pos, tys, i + 1,
                                    Append(vs, value.val), ovf \/ value.ovf)

(* deserialize_seq: the visitor of Vec<T> calls SeqAccess::                *)
(* next_element_seed until it returns None, which it does when the element *)
(* failed with an io::Error of kind UnexpectedEof, wherever in the element *)
(* that was.                                                               *)
deserialize_seq(reader, pos, ty, vs, ovf) ==
    LET r == deserialize(reader, pos, ty)
    IN  IF r.st = "ok"
        THEN deserialize_seq(reader, r.pos, ty, Append(vs, r.val), ovf \/ r.ovf)
        ELSE IF r.st = "Io(UnexpectedEof)"
        THEN [st |-> "ok", val |-> vs, pos |-> r.pos, ovf |-> ovf]
        ELSE r

(* deserialize_map: the visitor of a map calls MapAccess::next_key_seed,   *)
(* which returns None when the key failed with UnexpectedEof, and after a  *)
(* key next_value_seed, which returns every failure.  The entries are kept *)
(* in the order read.                                                      *)
deserialize_map(reader, pos, tys, vs, ovf) ==
    LET key == deserialize(reader, pos, tys[1])
    IN  IF key.st = "Io(UnexpectedEof)"
        THEN [st |-> "ok", val |-> vs, pos |-> key.pos, ovf |-> ovf]
        ELSE IF key.st # "ok" THEN key
        ELSE LET value == deserialize(reader, key.pos, tys[2])
             IN  IF value.st # "ok" THEN value
                 ELSE deserialize_map(reader, value.pos, tys,
                                      Append(vs, <<key.val, value.val>>),
                                      ovf \/ key.ovf \/ value.ovf)

deserialize_option(reader, pos, ty) ==
    LET tag == read_be(reader, pos, 1)
    IN  IF tag.st # "ok" THEN tag
        ELSE IF ToNat(tag.val) = 0 THEN Ok(<<>>, tag.pos)
        ELSE IF ToNat(tag.val) = 1
        THEN LET r == deserialize(reader, tag.pos, ty)
             IN  IF r.st = "ok" THEN [r EXCEPT !.val = <<r.val>>] ELSE r
        ELSE Failed("Message", tag.pos)

(* deserialize_enum: variant_seed reads the index as a u32 and the derived *)
(* visitor maps it to a variant (an index past the last one is an invalid  *)
(* value); then unit_variant, newtype_variant_seed or tuple_variant reads  *)
(* the payload.                                                            *)
deserialize_enum(reader, pos, variants) ==
    LET idx == deserialize_u32(reader, pos)
    IN  IF idx.st # "ok" THEN idx
        ELSE IF ULt(FromNat(Len(variants) - 1, 32), idx.val)
        THEN Failed("Message", idx.pos)
        ELSE LET k   == ToNat(Trunc(idx.val, 8))
                 tys == variants[k + 1]
                 r   == IF Len(tys) = 0 THEN Ok(<<>>, idx.pos)
                        ELSE IF Len(tys) = 1
                        THEN LET v == deserialize(reader, idx.pos, tys[1])
                             IN  IF v.st = "ok" THEN [v EXCEPT !.val = <<v.val>>]
                                 ELSE v
                        ELSE next_element_seed(reader, idx.pos, tys, 1, <<>>, FALSE)
             IN  IF r.st = "ok"
                 THEN [r EXCEPT !.val = [id |-> k, args |-> r.val]]
                 ELSE r

(* Deserialize::deserialize of the type named ty; serde reads a usize with *)
(* deserialize_u64 and an isize with deserialize_i64.  "var_u64" and       *)
(* "var_i64" are the calls of deserialize_var_u64 and deserialize_var_i64. *)
deserialize(reader, pos, ty) ==
    CASE ty = "u8"     -> deserialize_u8(reader, pos)
      [] ty = "u16"    -> deserialize_u16(reader, pos)
      [] ty = "u32"    -> deserialize_u32(reader, pos)
      [] ty = "var_u64" -> deserialize_var_u64(reader, pos)
      [] ty = "var_i64" -> deserialize_var_i64(reader, pos)
      [] ty \in {"u64", "usize"} -> deserialize_u64(reader, pos)
      [] ty \in {"i64", "isize"} -> deserialize_i64(reader, pos)
      [] ty = "f64"    -> deserialize_f64(reader, pos)
      [] ty = "bool"   -> deserialize_bool(reader, pos)
      [] ty = "char"   -> deserialize_char(reader, pos)
      [] ty = "String" ->
             deserialize_str(reader, [pos |-> pos, bytes_consumed |-> 0], <<>>)
      [] ty \in TupleTypes \cup StructTypes \cup ArrayTypes ->
             next_element_seed(reader, pos, Fields(ty), 1, <<>>, FALSE)
      [] ty \in SeqTypes    -> deserialize_seq(reader, pos, Fields(ty)[1], <<>>, FALSE)
      [] ty \in MapTypes    -> deserialize_map(reader, pos, Fields(ty), <<>>, FALSE)
      [] ty \in OptionTypes -> deserialize_option(reader, pos, Fields(ty)[1])
      [] ty \in EnumTypes   -> deserialize_enum(reader, pos, Variants(ty))

-----------------------------------------------------------------------------
(* Keys: values of the composite types, encoded by encode(), compared as   *)
(* the derived PartialOrd compares them, and decoded by decode() of        *)
(* decoder.rs or deserialize() of de.rs.                                   *)

(* The values of the type named ty that are encoded.  The strings are "",  *)
(* "a", "ab", "b", "\u{e9}" and "fizz"; the chars are 'a', U+00E9, U+20AC  *)
(* and U+10000, one of each encoded length.                                *)
RECURSIVE Values(_)
Values(ty) ==
    LET Arguments(tys) ==
            IF Len(tys) = 0 THEN {<<>>}
            ELSE IF Len(tys) = 1 THEN {<<a>> : a \in Values(tys[1])}
            ELSE {<<a, b>> : a \in Values(tys[1]), b \in Values(tys[2])}
    IN  CASE ty = "u8"     -> {FromNat(n, 8) : n \in {0, 42, 195, 255}}
          [] ty = "u32"    -> {FromNat(1, 32), FromNat(2, 32), MinSigned(32)}
          [] ty \in {"u64", "usize"} ->
                 {FromNat(0, 64), FromNat(15, 64), FromNat(16, 64), Pow2(12, 64),
                  Ones(64)}
          [] ty \in {"i64", "isize"} ->
                 {FromInt(d, 64) : d \in {-9, -8, -1, 0, 7, 8}}
          [] ty = "bool"   -> BOOLEAN
          [] ty = "char"   -> {97, 233, 8364, 65536}
          [] ty = "String" ->
                 {<<>>, <<97>>, <<97, 98>>, <<98>>, <<195, 169>>,
                  <<102, 105, 122, 122>>}
          [] ty \in TupleTypes \cup StructTypes \cup ArrayTypes ->
                 Arguments(Fields(ty))
          [] ty \in OptionTypes -> {<<>>} \cup Arguments(Fields(ty))
          [] ty \in EnumTypes ->
                 UNION {{[id |-> k - 1, args |-> args] :
                            args \in Arguments(Variants(ty)[k])}
                        : k \in 1..Len(Variants(ty))}

(* a < b for two values of the type named ty, as the derived PartialOrd    *)
(* decides it: in a tuple, struct or variant payload the first field that  *)
(* differs; None before Some; variants in declared order.                  *)
RECURSIVE Lt(_, _, _)
Lt(ty, a, b) ==
    LET LtFields(tys, x, y) ==
            \E i \in 1..Len(tys) :
                /\ Lt(tys[i], x[i], y[i])
                /\ \A j \in 1..(i - 1) : x[j] = y[j]
    IN  CASE ty \in {"u8", "u32", "u64", "usize"} -> ULt(a, b)
          [] ty \in {"i64", "isize"} -> SLt(a, b)
          [] ty = "bool"   -> ~a /\ b
          [] ty = "char"   -> a < b
          [] ty = "String" -> LexLt(a, b)
          [] ty \in TupleTypes \cup StructTypes \cup ArrayTypes ->
                 LtFields(Fields(ty), a, b)
          [] ty \in OptionTypes ->
                 \/ Len(a) = 0 /\ Len(b) = 1
                 \/ Len(a) = 1 /\ Len(b) = 1 /\ Lt(Fields(ty)[1], a[1], b[1])
          [] ty \in EnumTypes ->
                 \/ a.id < b.id
                 \/ a.id = b.id /\ LtFields(Variants(ty)[a.id + 1], a.args, b.args)

(* The types that are encoded.                                             *)
KeyTypes ==
    {"String", "bool", "u64", "i64", "usize", "isize"}
        \cup TupleTypes \cup StructTypes \cup ArrayTypes \cup OptionTypes
        \cup EnumTypes

(* The second value of a comparison has the type of the first, or is the   *)
(* same enum before and after a variant was appended, or the 64-bit type   *)
(* beside the platform-width one.                                          *)
SameType(e, ty) ==
    e = 2 => \/ enc[1].ty = ty
             \/ \E pair \in {EnumTypes, {"usize", "u64"}, {"isize", "i64"}} :
                    enc[1].ty \in pair /\ ty \in pair

(* encode(&v) of lib.rs for a value v of one of the types.                 *)
Encode ==
    \E e \in Encoders, ty \in KeyTypes :
        /\ SameType(e, ty)
        /\ \E v \in Values(ty) : Encoded(e, ty, v, encode(<<>>, ty, v))

(* Byte slices no encoder wrote: strings with a malformed sequence before  *)
(* the terminator, or with bytes after it, or with no terminator; options  *)
(* and bools with every kind of first byte; variable-length integers with  *)
(* a header that announces 9 trailing bytes, or 8 after a non-zero         *)
(* low nibble, with a length longer than the value needs, or cut short;    *)
(* and the empty slice.                                                    *)
GivenBytes ==
    {<<97, 0, 98, 0>>, <<97, 255, 98, 0>>, <<97, 195, 0>>, <<255, 0>>, <<192, 128, 0>>,
     <<237, 160, 128, 0>>, <<97, 98, 0, 244, 144, 128, 128, 0>>, <<97, 226, 130>>,
     <<0>>, <<1, 42>>, <<2, 42>>, <<255, 42>>, <<2>>,
     <<>>, <<97>>, <<0, 0, 1>>, <<0, 1, 0, 2>>, <<16, 0>>, <<136, 0>>, <<32, 1>>,
     <<144, 1, 2, 3, 4, 5, 6, 7, 8, 9>>, <<200, 1, 2, 3, 4, 5, 6, 7, 8, 9>>,
     <<143, 255, 255, 255, 255, 255, 255, 255, 255>>}

(* The bytes handed to the decoder come from elsewhere: they stand where   *)
(* encoder 1's output would.                                               *)
Given ==
    /\ test = "round_trip"
    /\ \E bytes \in GivenBytes : Encoded(1, "&[u8]", bytes, bytes)

(* Readers whose read fails once, at the place of IoFailure.               *)
GivenReaders ==
    {<<IoFailure, 1, 42>>, <<1, IoFailure, 42>>, <<97, IoFailure, 98, 0>>,
     <<0, 0, IoFailure, 0, 1, 97, 0>>, <<97, 0, IoFailure, 42>>,
     <<226, 130, IoFailure, 172, 0>>}

(* deserialize_from(reader) with such a reader.                            *)
GivenReader ==
    /\ test = "round_trip"
    /\ \E reader \in GivenReaders : Encoded(1, "R: io::BufRead", reader, reader)

(* Encoder::new(writer) with a writer that fails above cap bytes, and one  *)
(* variable-length integer emitted to it.                                  *)
EmitToFailingWriter ==
    /\ test = "write_failure"
    /\ \E cap \in 0..3 :
           \/ \E v \in Values("u64") \cup {Pow2(48, 64)} :
                  Encoded(1, "var_u64", v, emit_var_u64(<<(-2) - cap>>, v))
           \/ \E v \in Values("i64") \cup {Pow2(11, 64), Neg(Pow2(48, 64))} :
                  Encoded(1, "var_i64", v, emit_var_i64(<<(-2) - cap>>, v))

(* The types a decoder is asked for: the type that was encoded (for an     *)
(* enum also the enum with the appended variant); for given bytes a        *)
(* string, an option, a bool, a char, a u32, a variable-length integer, a  *)
(* sequence or a map; for a reader that fails, integers, a float, a bool,  *)
(* a char, a string, an option, and tuples of them.                        *)
DecodeTypes ==
    IF enc[1].ty = "&[u8]"
    THEN {"String", "Option<u8>", "bool", "char", "u32", "var_u64", "var_i64"}
             \cup SeqTypes \cup MapTypes
    ELSE IF enc[1].ty = "R: io::BufRead"
    THEN {"u32", "f64", "var_u64", "var_i64", "bool", "char", "String", "Option<u8>",
          "[u8; 2]", "MyKey", "(u8, String)", "(String, u8)", "(bool, String)",
          "(char, u8)"}
    ELSE IF enc[1].ty \in EnumTypes THEN EnumTypes
    ELSE {enc[1].ty}

(* One top-level call on a fresh decoder; by names the decoder.            *)
Decoded(by, ty, res) ==
    /\ dec' = [reader |-> Reader, pos |-> res.pos, ty |-> ty, at |-> 0,
               res |-> res, by |-> by]
    /\ UNCHANGED <<test, enc>>

(* decode::<T>(bytes) of decoder.rs.                                       *)
Decode ==
    /\ CanDeserialize
    /\ enc[1].ty # "R: io::BufRead"
    /\ dec.res.st = "none"
    /\ \E ty \in DecodeTypes : Decoded("Decoder", ty, decode(Reader, 0, ty))

(* deserialize::<T>(&bytes) of de.rs.                                      *)
DeserializeKey ==
    /\ CanDeserialize
    /\ dec.res.st = "none"
    /\ \E ty \in DecodeTypes : Decoded("Deserializer", ty, deserialize(Reader, 0, ty))

NextKey ==
    Encode \/ Given \/ GivenReader \/ EmitToFailingWriter \/ Decode \/ DeserializeKey

SpecKey == Init /\ [][NextKey]_vars

-----------------------------------------------------------------------------
(* Strings inside keys.                                                    *)

(* C11 as stated: decoding a string consumes the bytes up to and including *)
(* the first 0x00 and nothing after it, whatever follows: from bytes whose *)
(* first 0x00 is at index i, after valid UTF-8, the string is the i - 1    *)
(* bytes before it and the decoder is left at i; and the encoding of a     *)
(* (String, u8) decodes to the string and the byte that were encoded.      *)
StrStopsAtTerminator ==
    dec.res.st # "none" =>
        /\ dec.ty = "String" =>
               \A i \in 1..Len(Reader) :
                   (/\ Reader[i] = 0
                    /\ \A j \in 1..(i - 1) : Reader[j] # 0
                    /\ valid_up_to(SubSeq(Reader, 1, i - 1), 1) = i - 1)
                       => dec.res = Ok(SubSeq(Reader, 1, i - 1), i)
        /\ (dec.ty = "(String, u8)" /\ enc[1].ty = "(String, u8)")
               => (dec.res.st = "ok" /\ dec.res.val = enc[1].val
                   /\ dec.res.pos = Len(Reader))

(* C12 as stated: when the bytes before the first 0x00 are not valid       *)
(* UTF-8, decoding a string fails (the Deserializer with InvalidUtf8) and  *)
(* returns no string.                                                      *)
MalformedStrFails ==
    (dec.res.st # "none" /\ dec.ty = "String") =>
        \A i \in 1..Len(Reader) :
            (/\ Reader[i] = 0
             /\ \A j \in 1..(i - 1) : Reader[j] # 0
             /\ valid_up_to(SubSeq(Reader, 1, i - 1), 1) < i - 1)
                => IF dec.by = "Deserializer" THEN dec.res.st = "InvalidUtf8"
                   ELSE dec.res.st # "ok"

-----------------------------------------------------------------------------
(* Tuples, structs and arrays.                                             *)

TupleOrder ==
    (enc[1].ty \in TupleTypes \cup StructTypes \cup ArrayTypes
         /\ enc[2].ty = enc[1].ty)
        => /\ Lt(enc[1].ty, enc[1].val, enc[2].val)
                  <=> LexLt(enc[1].writer, enc[2].writer)
           /\ enc[1].val = enc[2].val <=> enc[1].writer = enc[2].writer

(* ("a", 255) before ("ab", 0).                                            *)
WitnessTupleOrder ==
    /\ enc[1].ty = "(String, u8)" /\ enc[2].ty = "(String, u8)"
    /\ enc[1].val = <<<<97>>, FromNat(255, 8)>>
    /\ enc[2].val = <<<<97, 98>>, FromNat(0, 8)>>
    /\ LexLt(enc[1].writer, enc[2].writer)
    /\ Len(enc[1].writer) = 3 /\ Len(enc[2].writer) = 4

-----------------------------------------------------------------------------
(* Options.                                                                *)

(* C15: None is the byte 00 and Some(v) the byte 01 before the encoding of *)
(* v; None is below every Some, and Some(a) is below Some(b) exactly when  *)
(* the encoding of a is below that of b.                                   *)
OptionEncoding ==
    /\ \A e \in Encoders :
           enc[e].ty \in OptionTypes =>
               IF Len(enc[e].val) = 0 THEN enc[e].writer = <<0>>
               ELSE enc[e].writer
                        = <<1>> \o encode(<<>>, Fields(enc[e].ty)[1], enc[e].val[1])
    /\ (enc[1].ty \in OptionTypes /\ enc[2].ty = enc[1].ty) =>
           LET T == Fields(enc[1].ty)[1]
               a == enc[1].val
               b == enc[2].val
           IN  /\ (Len(a) = 0 /\ Len(b) = 1) => LexLt(enc[1].writer, enc[2].writer)
               /\ (Len(a) = 1 /\ Len(b) = 0) => ~LexLt(enc[1].writer, enc[2].writer)
               /\ (Len(a) = 1 /\ Len(b) = 1) =>
                      (LexLt(enc[1].writer, enc[2].writer)
                           <=> LexLt(encode(<<>>, T, a[1]), encode(<<>>, T, b[1])))

WitnessOptionEncoding ==
    /\ enc[1].ty = "Option<u8>" /\ enc[1].val = <<>> /\ enc[1].writer = <<0>>
    /\ enc[2].ty = "Option<u8>" /\ enc[2].val = <<FromNat(0, 8)>>
    /\ enc[2].writer = <<1, 0>>

-----------------------------------------------------------------------------
(* Enums.                                                                  *)

(* C17: a variant is encoded as its index, a variable-length u64, and then *)
(* its payload; an index below 16 is the one byte equal to it, so variant  *)
(* 1 without payload is 01; values order by index, then by payload.        *)
EnumEncoding ==
    /\ \A e \in Encoders :
           enc[e].ty \in EnumTypes =>
               LET id  == enc[e].val.id
                   tys == Variants(enc[e].ty)[id + 1]
               IN  /\ enc[e].writer
                          = emit_var_u64(<<>>, FromNat(id, 64))
                                \o emit_fields(<<>>, tys, enc[e].val.args, 1)
                   /\ id < 16 => enc[e].writer[1] = id
                   /\ (id = 1 /\ tys = <<>>) => enc[e].writer = <<1>>
    /\ (enc[1].ty \in EnumTypes /\ enc[2].ty = enc[1].ty) =>
           /\ Lt(enc[1].ty, enc[1].val, enc[2].val)
                  <=> LexLt(enc[1].writer, enc[2].writer)
           /\ enc[1].val.id < enc[2].val.id => LexLt(enc[1].writer, enc[2].writer)

WitnessEnumEncoding ==
    /\ enc[1].ty = "TestEnum" /\ enc[1].val.id = 1 /\ enc[1].writer = <<1>>
    /\ enc[2].ty = "TestEnum" /\ enc[2].val.id = 2
    /\ enc[2].val.args = <<FromInt(-9, 64)>>

(* C18 as stated: decoding reads the index as the variable-length integer  *)
(* that was written, so the bytes of a variant decode to that variant and  *)
(* its payload.                                                            *)
EnumRoundTrip ==
    (dec.res.st # "none" /\ enc[1].ty \in EnumTypes /\ dec.ty = enc[1].ty)
        => dec.res = Ok(enc[1].val, Len(Reader))

-----------------------------------------------------------------------------
(* Platform-width integers.                                                *)

-----------------------------------------------------------------------------
(* Arithmetic of the variable-length integers.                             *)

(* C29 as stated: for every v, i64::MIN included, the magnitude is         *)
(* computed without signed overflow: v.abs() is a non-negative i64, and    *)
(* the magnitude taken from it is below 2^63.                              *)
MagnitudeNoOverflow ==
    \A e \in Encoders :
        enc[e].ty = "var_i64" =>
            /\ abs(enc[e].val)[1] = 0
            /\ var_i64_val(enc[e].val)[1] = 0


-----------------------------------------------------------------------------
(* Bools.                                                                  *)

(* C28: decoding a bool from a non-empty input, when the read does not     *)
(* fail, consumes exactly one byte and never fails on its value: 00 is     *)
(* false and every other byte is true, in both decoders.  Encoding writes  *)
(* 00 for false and 01 for true, so false sorts before true and decoding   *)
(* an encoded bool gives it back.                                          *)
BoolDecoding ==
    /\ \A e \in Encoders :
           enc[e].ty = "bool" => enc[e].writer = (IF enc[e].val THEN <<1>> ELSE <<0>>)
    /\ (enc[1].ty = "bool" /\ enc[2].ty = "bool")
           => (Lt("bool", enc[1].val, enc[2].val)
                   <=> LexLt(enc[1].writer, enc[2].writer))
    /\ (dec.res.st # "none" /\ dec.ty = "bool" /\ Len(Reader) > 0
            /\ Reader[1] # IoFailure)
           => /\ dec.res = Ok(Reader[1] # 0, 1)
              /\ enc[1].ty = "bool" => dec.res.val = enc[1].val

(* The bytes 02 2A were read as a bool: true, and 2A is left.              *)
WitnessBoolDecoding ==
    /\ enc[1].ty = "&[u8]" /\ Reader = <<2, 42>>
    /\ dec.res.st = "ok" /\ dec.ty = "bool"
    /\ dec.res.val = TRUE /\ dec.res.pos = 1

-----------------------------------------------------------------------------
(* Variable-length integers read from arbitrary bytes.                     *)

(* C26 as stated: on every input the variable-length decoders read at most *)
(* 8 bytes after the header, and no shift by 64 or more bits and no carry  *)
(* out of the 64-bit accumulator happens while the bytes are reassembled.  *)
VarIntArithmeticSafe ==
    (dec.res.st # "none" /\ dec.ty \in {"var_u64", "var_i64"})
        => /\ dec.res.pos <= 9
           /\ ~dec.res.ovf

-----------------------------------------------------------------------------
(* Characters inside tuples.                                               *)

(* C30 as stated: decoding a char consumes exactly the bytes of its UTF-8  *)
(* encoding, so decoding the encoding of a tuple (c, b) of a char and a    *)
(* byte returns (c, b) with every byte consumed.                           *)
CharTupleRoundTrip ==
    (enc[1].ty = "(char, u8)" /\ dec.res.st # "none" /\ dec.ty = "(char, u8)")
        => dec.res = Ok(enc[1].val, Len(Reader))

-----------------------------------------------------------------------------
(* End of input.                                                           *)

(* C21 as stated: the Deserializer returns a list exactly when the input   *)
(* is the concatenation of complete element encodings (here elements of 2  *)
(* bytes, u16 or [u8; 2]), and the list is then those elements in order;   *)
(* an input that ends inside an element yields no list.                    *)
SeqOfCompleteElements ==
    (dec.res.st # "none" /\ dec.by = "Deserializer" /\ dec.ty \in SeqTypes)
        => /\ dec.res.st = "ok" <=> Len(Reader) % 2 = 0
           /\ dec.res.st = "ok"
                  => dec.res.val
                         = [i \in 1..(Len(Reader) \div 2) |->
                                deserialize(Reader, 2 * (i - 1), Fields(dec.ty)[1]).val]

(* C22 as stated: apart from the sequence decoder, a decode that reaches   *)
(* the end of the input before its value is complete returns an error: a   *)
(* string with no 00 terminator, a u32 from fewer than 4 bytes, a map      *)
(* whose input ends inside an entry (entries of a u16 key and a u8 value). *)
EofBeforeCompleteFails ==
    (dec.res.st # "none" /\ dec.by = "Deserializer")
        => /\ (dec.ty = "String" /\ \A i \in 1..Len(Reader) : Reader[i] # 0)
                  => dec.res.st # "ok"
           /\ (dec.ty = "u32" /\ Len(Reader) < 4) => dec.res.st # "ok"
           /\ (dec.ty \in MapTypes /\ Len(Reader) % 3 # 0) => dec.res.st # "ok"

(* C23 as stated: decoding from fewer bytes than the type needs (a u32     *)
(* from fewer than 4 bytes, a variable-length integer without its header   *)
(* or trailing bytes, a char from the empty input) returns the error       *)
(* UnexpectedEof, which is not the error Io.                               *)
ShortInputIsUnexpectedEof ==
    dec.res.st # "none"
        => /\ (dec.ty = "u32" /\ Len(Reader) < 4) => dec.res.st = "UnexpectedEof"
           /\ (dec.ty \in {"var_u64", "var_i64"} /\ Reader \in {<<>>, <<32, 1>>})
                  => dec.res.st = "UnexpectedEof"
           /\ (dec.ty = "char" /\ Reader = <<>>) => dec.res.st = "UnexpectedEof"

-----------------------------------------------------------------------------
(* Reads and writes that fail.                                             *)

(* C24 as stated: when a read of the stream failed during a decode (the    *)
(* reader was left behind the place of the failure), the call returns the  *)
(* error Io, which carries the cause, and no other error.                  *)
ReadFailureIsIo ==
    (enc[1].ty = "R: io::BufRead" /\ dec.res.st # "none"
         /\ \E j \in 1..dec.res.pos : Reader[j] = IoFailure)
        => dec.res.st = "Io(Other)"

=============================================================================
